---------------------------- MODULE Spec2Model ----------------------------
(***************************************************************************)
(* Model of the chunked-messages feedback store (chunkedMessagesSlice.ts)  *)
(* and of the streaming chat session (hooks/streamChat.ts driving          *)
(* CohereClient.chat over fetchEventSource).                               *)
(*                                                                         *)
(* Strings are sequences of character codes.  A JavaScript array is a     *)
(* record [elems, props]: elems holds the indexed elements 0..length-1     *)
(* (TLA+ position i+1 is JavaScript index i) and props the properties     *)
(* stored under keys that are not array indices (negative numbers).       *)
(***************************************************************************)
EXTENDS Integers, Sequences, FiniteSets, TLC

VARIABLES
  chunkedMessages,  \* the store's state object
  now,              \* the last reading of Date.now()
  steps,            \* store operations performed so far
  lastOp,           \* the store operation that produced the current state
  notified          \* the states that operation's set() calls handed to the listeners

storeVars == <<chunkedMessages, now, steps, lastOp, notified>>

VARIABLES
  pc,             \* where the session is: idle, connecting, streaming, completed, failed
  request,        \* params.request
  conversations,  \* the cached conversation list
  cacheCalls,     \* the setQueryData calls made, in order
  received,       \* the frames the connection delivered, in order
  readCalls,      \* the arguments of the onRead calls, in order
  finishCalls,    \* how many times onFinish was called
  errorCalls      \* the arguments (messages) of the onError calls, in order

VARIABLES
  status,         \* the status of the response that opened the connection, 0 before it
  rejection,      \* the error the last mutationFn promise rejected with
  failureCount,   \* the failures the mutation has retried after
  attempts,       \* how many times mutationFn ran, one fetch each
  invalidations,  \* the invalidateQueries(['defaultAPIKey']) calls made
  aborted         \* abortControllerRef.current.signal.aborted

mutationVars == <<status, rejection, failureCount, attempts, invalidations, aborted>>

VARIABLES
  authHeader,     \* X-Toolkit-Auth-Update of the last opening response, null without one
  authToken,      \* CohereClient.authToken
  sinkCalls       \* the arguments of the onAuthTokenUpdate calls, in order

authVars == <<authHeader, authToken, sinkCalls>>

VARIABLES
  mounted,            \* the component that called useStreamChat is mounted
  controllers,        \* signal.aborted of every AbortController created, in order
  abortControllerRef, \* abortControllerRef.current: 0 for null, else the controller's number
  chats               \* the cohereClient.chat calls made: their signal and connection

handleVars == <<mounted, controllers, abortControllerRef, chats>>

sessionVars ==
  <<pc, request, conversations, cacheCalls, received, readCalls, finishCalls, errorCalls,
    mutationVars, authVars, handleVars>>

vars == <<storeVars, sessionVars>>

(***************************************************************************)
(* Bounds of the model.                                                    *)
(***************************************************************************)
MaxLen == 2          \* longest response text
MaxChunkSize == 2    \* largest explicit chunk size passed to createChunks
MaxTime == 2         \* readings of Date.now() taken by recordFeedback in one run
MaxSteps == 2        \* store operations in one run, after the responses arrived

Stream == {"stream1", "stream2"}

Null == "null"
Undefined == "undefined"
Absent == "absent"

Min(a, b) == IF a < b THEN a ELSE b
Max(a, b) == IF a > b THEN a ELSE b

\* The response texts fed to the store: the prefixes of the word 1 2 3 ...
Texts == {[i \in 1..n |-> i] : n \in 0..MaxLen}

\* createChunks(maxChunkSize = 800)
DefaultChunkSize == 800
ChunkSizes == (1..MaxChunkSize) \cup {DefaultChunkSize}

\* chunk indices handed to recordFeedback: one below and one above every
\* index a chunk array of the model can have
Indices == -1..MaxLen

\* text selections made in the page
SelTexts == {<<>>, <<7>>}

(***************************************************************************)
(* ChunkFeedback values.  A field the object does not carry is Absent (the *)
(* timestamp: the empty sequence).  Hole is what reading an index of the   *)
(* array that was never written gives (undefined).                         *)
(***************************************************************************)
EmptyEntry ==
  [rating |-> Absent, comment |-> Absent, selectedText |-> Absent, timestamp |-> <<>>]

Hole ==
  [rating |-> Undefined, comment |-> Undefined, selectedText |-> Undefined,
   timestamp |-> <<>>]

\* the objects the feedback panel passes: prepareFeedbackWithSelection(rating)
\* always carries its own timestamp
FeedbackInputs ==
  { [rating |-> "positive", comment |-> "ok", selectedText |-> <<7>>, timestamp |-> <<0>>],
    [rating |-> Absent, comment |-> "", selectedText |-> <<>>, timestamp |-> <<0>>] }

EmptyArray == [elems |-> <<>>, props |-> <<>>]

INITIAL_STATE ==
  [responses |-> [s \in Stream |-> <<>>],
   chunks |-> [s \in Stream |-> <<>>],
   feedback |-> [s \in Stream |-> EmptyArray],
   currentChunkIndices |-> [s \in Stream |-> 0],
   isComplete |-> FALSE,
   isChunked |-> FALSE,
   selectedText |-> <<>>,
   activeFeedback |-> [streamId |-> Null, chunkIndex |-> <<>>]]

\* Array(count).fill(null).map(() => ({}))
createEmptyFeedback(count) ==
  [elems |-> [i \in 1..count |-> EmptyEntry], props |-> <<>>]

RECURSIVE chunkLoop(_, _, _, _)
\* the for loop of createTextChunks: i is the JavaScript loop variable
chunkLoop(text, size, i, acc) ==
  IF i < Len(text)
    THEN chunkLoop(text, size, i + size,
                   Append(acc, SubSeq(text, i + 1, Min(i + size, Len(text)))))
    ELSE acc

RECURSIVE chunkLoopWholeOnly(_, _, _, _)
\* the loop with the condition i + size <= text.length: the shorter last
\* segment is never pushed
chunkLoopWholeOnly(text, size, i, acc) ==
  IF i + size <= Len(text)
    THEN chunkLoopWholeOnly(text, size, i + size,
                            Append(acc, SubSeq(text, i + 1, i + size)))
    ELSE acc

createTextChunksWholeOnly(text, maxChunkSize) ==
  IF text = <<>> THEN <<>> ELSE chunkLoopWholeOnly(text, maxChunkSize, 0, <<>>)

RECURSIVE chunkLoopOverlapping(_, _, _, _)
\* the loop slicing text.substring(i, i + maxChunkSize + 1): each segment runs
\* one character into the next
chunkLoopOverlapping(text, size, i, acc) ==
  IF i < Len(text)
    THEN chunkLoopOverlapping(text, size, i + size,
                              Append(acc, SubSeq(text, i + 1, Min(i + size + 1, Len(text)))))
    ELSE acc

createTextChunksOverlapping(text, maxChunkSize) ==
  IF text = <<>> THEN <<>> ELSE chunkLoopOverlapping(text, maxChunkSize, 0, <<>>)

createTextChunks(text, maxChunkSize) ==
  IF text = <<>> THEN <<>> ELSE chunkLoop(text, maxChunkSize, 0, <<>>)

\* startFeedbackSession as it was before it preserved anything:
\* { ...INITIAL_STATE, isChunked: true }
startFeedbackSessionFromInitial(cm) ==
  [INITIAL_STATE EXCEPT !.isChunked = TRUE]

\* startFeedbackSession without the fresh feedback arrays
startFeedbackSessionKeepFeedback(cm) ==
  [cm EXCEPT !.isChunked = TRUE,
             !.currentChunkIndices = [s \in Stream |-> 0]]

startFeedbackSession(cm) ==
  [cm EXCEPT !.isChunked = TRUE,
             !.currentChunkIndices = [s \in Stream |-> 0],
             !.feedback = [s \in Stream |-> createEmptyFeedback(Len(cm.chunks[s]))]]

\* updateStreamContent adding the content to the text already stored
updateStreamContentAppending(cm, streamId, content) ==
  [cm EXCEPT !.responses[streamId] = @ \o content]

updateStreamContent(cm, streamId, content) ==
  [cm EXCEPT !.responses[streamId] = content]

\* createChunks storing stream1's chunks for both streams
createChunksSameForBoth(cm, maxChunkSize) ==
  LET one == createTextChunks(cm.responses["stream1"], maxChunkSize)
  IN [cm EXCEPT !.chunks = [s \in Stream |-> one],
                !.feedback = [s \in Stream |-> createEmptyFeedback(Len(one))]]

\* createChunks setting the cursors to 0 as completeStreams does before it
createChunksResettingCursors(cm, maxChunkSize) ==
  LET newChunks == [s \in Stream |-> createTextChunks(cm.responses[s], maxChunkSize)]
  IN [cm EXCEPT !.chunks = newChunks,
                !.currentChunkIndices = [s \in Stream |-> 0],
                !.feedback = [s \in Stream |-> createEmptyFeedback(Len(newChunks[s]))]]

createChunks(cm, maxChunkSize) ==
  LET newChunks == [s \in Stream |-> createTextChunks(cm.responses[s], maxChunkSize)]
  IN [cm EXCEPT !.chunks = newChunks,
                !.feedback = [s \in Stream |-> createEmptyFeedback(Len(newChunks[s]))]]

\* the first set() of completeStreams
completeStreamsMark(cm) ==
  [cm EXCEPT !.isComplete = TRUE,
             !.currentChunkIndices = [s \in Stream |-> 0]]

\* completeStreams chunking at 300, the default size of the earlier slice
completeStreamsOldDefault(cm) == createChunks(completeStreamsMark(cm), 300)

completeStreams(cm) == createChunks(completeStreamsMark(cm), DefaultChunkSize)

\* updatedFeedback = [...streamFeedback]; updatedFeedback[chunkIndex] = entry
arrayStore(arr, chunkIndex, entry) ==
  LET n == Len(arr.elems)
  IN IF chunkIndex < 0
       THEN [elems |-> arr.elems, props |-> (chunkIndex :> entry)]
       ELSE [elems |-> [i \in 1..Max(n, chunkIndex + 1) |->
                          IF i = chunkIndex + 1 THEN entry
                          ELSE IF i <= n THEN arr.elems[i] ELSE Hole],
             props |-> <<>>]

\* the fields of entry, each taken from previous where entry does not carry it
MergedEntry(previous, entry) ==
  [f \in DOMAIN entry |-> IF entry[f] = Absent THEN previous[f] ELSE entry[f]]

\* recordFeedback spreading the entry already stored over the new one:
\* { ...streamFeedback[chunkIndex], ...chunkFeedback, timestamp }
recordFeedbackMerging(cm, streamId, chunkIndex, chunkFeedback, t) ==
  LET elems == cm.feedback[streamId].elems
      previous == IF chunkIndex >= 0 /\ chunkIndex < Len(elems)
                    THEN elems[chunkIndex + 1] ELSE EmptyEntry
      feedbackWithTimestamp ==
        [MergedEntry([previous EXCEPT !.timestamp = <<>>],
                     [chunkFeedback EXCEPT !.timestamp = <<>>])
           EXCEPT !.timestamp = <<t>>]
  IN [cm EXCEPT !.feedback[streamId] =
                    arrayStore(cm.feedback[streamId], chunkIndex, feedbackWithTimestamp),
                !.selectedText = <<>>,
                !.activeFeedback = [streamId |-> Null, chunkIndex |-> <<>>]]

\* recordFeedback pushing the entry at the end of the array:
\* updatedFeedback.push(feedbackWithTimestamp)
recordFeedbackAppending(cm, streamId, chunkIndex, chunkFeedback, t) ==
  LET feedbackWithTimestamp == [chunkFeedback EXCEPT !.timestamp = <<t>>]
  IN [cm EXCEPT !.feedback[streamId].elems = Append(@, feedbackWithTimestamp),
                !.selectedText = <<>>,
                !.activeFeedback = [streamId |-> Null, chunkIndex |-> <<>>]]

recordFeedback(cm, streamId, chunkIndex, chunkFeedback, t) ==
  LET feedbackWithTimestamp == [chunkFeedback EXCEPT !.timestamp = <<t>>]
  IN [cm EXCEPT !.feedback[streamId] =
                    arrayStore(cm.feedback[streamId], chunkIndex, feedbackWithTimestamp),
                !.selectedText = <<>>,
                !.activeFeedback = [streamId |-> Null, chunkIndex |-> <<>>]]

showNextChunk(cm) ==
  [cm EXCEPT !.currentChunkIndices =
     [s \in Stream |-> Min(cm.currentChunkIndices[s] + 1, Len(cm.chunks[s]) - 1)]]

\* showNextChunkForStream moving the other stream's cursor along
showNextChunkForStreamBoth(cm, streamId) ==
  [cm EXCEPT !.currentChunkIndices =
     [s \in Stream |-> Min(cm.currentChunkIndices[s] + 1,
                           Max(0, Len(cm.chunks[s]) - 1))]]

\* showNextChunkForStream starting again at the first chunk after the last one
showNextChunkForStreamWrapping(cm, streamId) ==
  LET nextIndex == cm.currentChunkIndices[streamId] + 1
      maxIndex == Max(0, Len(cm.chunks[streamId]) - 1)
  IN [cm EXCEPT !.currentChunkIndices[streamId] =
                    IF nextIndex > maxIndex THEN 0 ELSE nextIndex]

showNextChunkForStream(cm, streamId) ==
  LET nextIndex == cm.currentChunkIndices[streamId] + 1
      maxIndex == Max(0, Len(cm.chunks[streamId]) - 1)
  IN [cm EXCEPT !.currentChunkIndices[streamId] = Min(nextIndex, maxIndex)]

resetFeedbackSession(cm) == INITIAL_STATE

\* resetEverything spreading the state for the flags instead of setting them
resetEverythingKeepFlags(cm) ==
  [responses |-> cm.responses,
   chunks |-> cm.chunks,
   currentChunkIndices |-> [s \in Stream |-> 0],
   feedback |-> [s \in Stream |-> createEmptyFeedback(Len(cm.chunks[s]))],
   isChunked |-> cm.isChunked,
   isComplete |-> cm.isComplete,
   selectedText |-> Undefined,
   activeFeedback |-> [streamId |-> Undefined, chunkIndex |-> <<>>]]

\* the object returned carries neither selectedText nor activeFeedback
resetEverything(cm) ==
  [responses |-> cm.responses,
   chunks |-> cm.chunks,
   currentChunkIndices |-> [s \in Stream |-> 0],
   feedback |-> [s \in Stream |-> createEmptyFeedback(Len(cm.chunks[s]))],
   isChunked |-> TRUE,
   isComplete |-> TRUE,
   selectedText |-> Undefined,
   activeFeedback |-> [streamId |-> Undefined, chunkIndex |-> <<>>]]

setSelectedText(cm, text, streamId, chunkIndex) ==
  [cm EXCEPT !.selectedText = text,
             !.activeFeedback = [streamId |-> streamId, chunkIndex |-> <<chunkIndex>>]]

clearSelectedText(cm) ==
  [cm EXCEPT !.selectedText = <<>>,
             !.activeFeedback = [streamId |-> Null, chunkIndex |-> <<>>]]

\* getSelectedTextFeedback: the value it returns, or thrown when the state
\* has no activeFeedback (streamId Undefined stands for the missing object)
\* and reading activeFeedback.streamId raises a TypeError
getSelectedTextFeedback(cm) ==
  IF cm.activeFeedback.streamId = Undefined
    THEN [thrown |-> TRUE, text |-> cm.selectedText,
          streamId |-> Undefined, chunkIndex |-> <<>>]
    ELSE [thrown |-> FALSE, text |-> cm.selectedText,
          streamId |-> cm.activeFeedback.streamId,
          chunkIndex |-> cm.activeFeedback.chunkIndex]

(***************************************************************************)
(* The store's actions.                                                    *)
(***************************************************************************)
\* lastOp names the operation that produced the current state, with its
\* stream and its integer or text argument when it has them.  Every set() of
\* the store replaces the state and calls the listeners with the new state
\* before it returns; notified lists the states of the operation's set() calls.
Op(name, streamId, arg) == [op |-> name, streamId |-> streamId, arg |-> arg]

\* The store as the streaming phase leaves it: updateStreamContent has put a
\* text (possibly the empty one) into each response, nothing else has run.
StoreInit ==
  /\ \E t1 \in Texts, t2 \in Texts :
       chunkedMessages =
         updateStreamContent(updateStreamContent(INITIAL_STATE, "stream1", t1),
                             "stream2", t2)
  /\ now = 0
  /\ steps = 0
  /\ lastOp = Op("init", Null, <<>>)
  /\ notified = <<>>

\* every store operation counts against the run's budget; no session runs
StoreTick ==
  /\ steps < MaxSteps
  /\ steps' = steps + 1
  /\ UNCHANGED sessionVars

StartFeedbackSession ==
  /\ chunkedMessages' = startFeedbackSession(chunkedMessages)
  /\ lastOp' = Op("startFeedbackSession", Null, <<>>)
  /\ notified' = <<chunkedMessages'>>
  /\ UNCHANGED now
  /\ StoreTick

UpdateStreamContent ==
  \E s \in Stream, content \in Texts :
    /\ chunkedMessages' = updateStreamContent(chunkedMessages, s, content)
    /\ lastOp' = Op("updateStreamContent", s, content)
    /\ notified' = <<chunkedMessages'>>
    /\ UNCHANGED now
    /\ StoreTick

CompleteStreams ==
  /\ chunkedMessages' = completeStreams(chunkedMessages)
  /\ lastOp' = Op("completeStreams", Null, <<>>)
  /\ notified' = <<completeStreamsMark(chunkedMessages), chunkedMessages'>>
  /\ UNCHANGED now
  /\ StoreTick

CreateChunks ==
  \E size \in ChunkSizes :
    /\ chunkedMessages' = createChunks(chunkedMessages, size)
    /\ lastOp' = Op("createChunks", Null, <<size>>)
    /\ notified' = <<chunkedMessages'>>
    /\ UNCHANGED now
    /\ StoreTick

\* Date.now() is read once per call; the clock moves on between calls
RecordFeedback ==
  \E s \in Stream, i \in Indices, f \in FeedbackInputs :
    /\ now < MaxTime
    /\ now' = now + 1
    /\ chunkedMessages' = recordFeedback(chunkedMessages, s, i, f, now')
    /\ lastOp' = Op("recordFeedback", s, <<i>>)
    /\ notified' = <<chunkedMessages'>>
    /\ StoreTick

ShowNextChunk ==
  /\ chunkedMessages' = showNextChunk(chunkedMessages)
  /\ lastOp' = Op("showNextChunk", Null, <<>>)
  /\ notified' = <<chunkedMessages'>>
  /\ UNCHANGED now
  /\ StoreTick

ShowNextChunkForStream ==
  \E s \in Stream :
    /\ chunkedMessages' = showNextChunkForStream(chunkedMessages, s)
    /\ lastOp' = Op("showNextChunkForStream", s, <<>>)
    /\ notified' = <<chunkedMessages'>>
    /\ UNCHANGED now
    /\ StoreTick

\* MessageStreamColumn and FeedbackPanel select text in the chunk under the cursor
SetSelectedText ==
  \E text \in SelTexts, s \in Stream :
    /\ chunkedMessages' =
         setSelectedText(chunkedMessages, text, s, chunkedMessages.currentChunkIndices[s])
    /\ lastOp' = Op("setSelectedText", s, <<>>)
    /\ notified' = <<chunkedMessages'>>
    /\ UNCHANGED now
    /\ StoreTick

ClearSelectedText ==
  /\ chunkedMessages' = clearSelectedText(chunkedMessages)
  /\ lastOp' = Op("clearSelectedText", Null, <<>>)
  /\ notified' = <<chunkedMessages'>>
  /\ UNCHANGED now
  /\ StoreTick

ResetFeedbackSession ==
  /\ chunkedMessages' = resetFeedbackSession(chunkedMessages)
  /\ lastOp' = Op("resetFeedbackSession", Null, <<>>)
  /\ notified' = <<chunkedMessages'>>
  /\ UNCHANGED now
  /\ StoreTick

ResetEverything ==
  /\ chunkedMessages' = resetEverything(chunkedMessages)
  /\ lastOp' = Op("resetEverything", Null, <<>>)
  /\ notified' = <<chunkedMessages'>>
  /\ UNCHANGED now
  /\ StoreTick

(***************************************************************************)
(* The streaming chat session: one call of chatMutation.mutationFn, which  *)
(* hands its callbacks to CohereClient.chat, which runs them over one      *)
(* fetchEventSource connection.                                            *)
(*                                                                         *)
(* A frame is an EventSourceMessage; its data is "" (no data), a text that *)
(* is not JSON, or the JSON text of an event object.                       *)
(***************************************************************************)
MaxFrames == 3       \* frames one connection delivers

STREAM_END == "stream-end"
COMPLETE == "COMPLETE"

EventObject(event, id, finish_reason, text, error) ==
  [event |-> event, id |-> id, finish_reason |-> finish_reason, text |-> text,
   error |-> error]

NoEvent == EventObject(Null, 0, Absent, Absent, Absent)

\* the three kinds of frame data: the empty string, a text JSON.parse rejects,
\* and JSON.stringify of an event object
NoData == [kind |-> "empty", json |-> NoEvent]
NotJson == [kind |-> "malformed", json |-> NoEvent]
Json(obj) == [kind |-> "json", json |-> obj]

DataEvents ==
  { EventObject("text-generation", n, Absent, Absent, Absent) : n \in {1, 2} }

StreamEndEvents ==
  { EventObject(STREAM_END, 0, COMPLETE, "final text", Absent),
    EventObject(STREAM_END, 0, "ERROR", "", "content_filter"),
    EventObject(STREAM_END, 0, "MAX_TOKENS", "partial", "") }

Frames ==
  { [data |-> NoData], [data |-> NotJson] }
    \cup { [data |-> Json(e)] : e \in DataEvents \cup StreamEndEvents }

\* JSON.parse: the object a well-formed text encodes, or a SyntaxError
JSONparse(data) ==
  IF data.kind = "json" THEN [ok |-> TRUE, value |-> data.json]
  ELSE [ok |-> FALSE, value |-> NoEvent]

\* params.request: the conversation id may be missing
Requests ==
  { [conversation_id |-> c, message |-> "question"] : c \in {Undefined, "c1", "c3"} }

Conversation(id, description, updatedAt) ==
  [id |-> id, description |-> description, updatedAt |-> updatedAt]

\* the cached ['conversations'] query data: undefined (not fetched yet) or a list
NoCache == [defined |-> FALSE, list |-> <<>>]
Cache(list) == [defined |-> TRUE, list |-> list]

Caches ==
  { NoCache,
    Cache(<< Conversation("c1", "first", "earlier"),
             Conversation("c2", "second", "earlier") >>) }

\* getUpdatedConversations adding a conversation when none has the id
getUpdatedConversationsUpsert(conversationId, description, convs) ==
  IF ~convs.defined THEN convs
  ELSE IF \A i \in 1..Len(convs.list) : convs.list[i].id # conversationId
    THEN Cache(Append(convs.list, Conversation(conversationId, description, "now")))
  ELSE Cache([i \in 1..Len(convs.list) |->
                LET c == convs.list[i]
                IN IF c.id # conversationId THEN c
                   ELSE Conversation(c.id, description, "now")])

\* getUpdatedConversations(conversationId, description)(conversations);
\* new Date().toISOString() is the string "now"
getUpdatedConversations(conversationId, description, convs) ==
  IF ~convs.defined THEN convs
  ELSE Cache([i \in 1..Len(convs.list) |->
                LET c == convs.list[i]
                IN IF c.id # conversationId THEN c
                   ELSE Conversation(c.id, description, "now")])

\* x ?? '' for a conversation id
OrEmpty(x) == IF x = Undefined THEN "" ELSE x

\* truthiness of a conversation id
Truthy(x) == x # Undefined /\ x # ""

\* queryClient.setQueryData(['conversations'], getUpdatedConversations(id, description))
CacheCall(id, description) == [id |-> id, description |-> description]

\* onMessage without the finish_reason check: every stream-end event is taken
\* as a completion
onMessageNoReasonCheck(req, event) ==
  IF event.data = NoData THEN [cache |-> <<>>, read |-> <<>>, thrown |-> <<>>]
  ELSE
    LET parsed == JSONparse(event.data)
        data == parsed.value
    IN IF ~parsed.ok
         THEN [cache |-> <<>>, read |-> <<>>, thrown |-> <<"SyntaxError">>]
       ELSE IF data.event = STREAM_END /\ Truthy(req.conversation_id)
         THEN [cache |-> << CacheCall(req.conversation_id, data.text) >>,
               read |-> <<data>>, thrown |-> <<>>]
       ELSE [cache |-> <<>>, read |-> <<data>>, thrown |-> <<>>]

\* onMessage updating the cache before it looks at the finish reason
onMessageUpdateFirst(req, event) ==
  IF event.data = NoData THEN [cache |-> <<>>, read |-> <<>>, thrown |-> <<>>]
  ELSE
    LET parsed == JSONparse(event.data)
        data == parsed.value
        update == IF data.event = STREAM_END /\ Truthy(req.conversation_id)
                    THEN << CacheCall(req.conversation_id, data.text) >> ELSE <<>>
    IN IF ~parsed.ok
         THEN [cache |-> <<>>, read |-> <<>>, thrown |-> <<"SyntaxError">>]
       ELSE IF data.event = STREAM_END /\ data.finish_reason # COMPLETE
         THEN [cache |-> update, read |-> <<>>,
               thrown |-> << IF data.error \in {Absent, ""}
                               THEN "Stream ended unexpectedly" ELSE data.error >>]
       ELSE [cache |-> update, read |-> <<data>>, thrown |-> <<>>]

\* onMessage updating the cache under params.request.conversation_id ?? ''
\* whether or not the request carries a conversation id
onMessageNoIdCheck(req, event) ==
  IF event.data = NoData THEN [cache |-> <<>>, read |-> <<>>, thrown |-> <<>>]
  ELSE
    LET parsed == JSONparse(event.data)
        data == parsed.value
    IN IF ~parsed.ok
         THEN [cache |-> <<>>, read |-> <<>>, thrown |-> <<"SyntaxError">>]
       ELSE IF data.event = STREAM_END /\ data.finish_reason # COMPLETE
         THEN [cache |-> <<>>, read |-> <<>>,
               thrown |-> << IF data.error \in {Absent, ""}
                               THEN "Stream ended unexpectedly" ELSE data.error >>]
       ELSE IF data.event = STREAM_END
         THEN [cache |-> << CacheCall(OrEmpty(req.conversation_id), data.text) >>,
               read |-> <<data>>, thrown |-> <<>>]
       ELSE [cache |-> <<>>, read |-> <<data>>, thrown |-> <<>>]

\* onMessage returning on data that JSON.parse rejects, as it does on empty data
onMessageSkipMalformed(req, event) ==
  IF event.data = NoData THEN [cache |-> <<>>, read |-> <<>>, thrown |-> <<>>]
  ELSE
    LET parsed == JSONparse(event.data)
        data == parsed.value
    IN IF ~parsed.ok
         THEN [cache |-> <<>>, read |-> <<>>, thrown |-> <<>>]
       ELSE IF data.event = STREAM_END /\ data.finish_reason # COMPLETE
         THEN [cache |-> <<>>, read |-> <<>>,
               thrown |-> << IF data.error \in {Absent, ""}
                               THEN "Stream ended unexpectedly" ELSE data.error >>]
       ELSE IF data.event = STREAM_END /\ Truthy(req.conversation_id)
         THEN [cache |-> << CacheCall(req.conversation_id, data.text) >>,
               read |-> <<data>>, thrown |-> <<>>]
       ELSE [cache |-> <<>>, read |-> <<data>>, thrown |-> <<>>]

\* What onMessage does with one frame: the setQueryData calls it makes, whether
\* it calls onRead, and the message of the Error it throws ("" when it returns).
onMessage(req, event) ==
  IF event.data = NoData THEN [cache |-> <<>>, read |-> <<>>, thrown |-> <<>>]
  ELSE
    LET parsed == JSONparse(event.data)
        data == parsed.value
    IN IF ~parsed.ok
         THEN [cache |-> <<>>, read |-> <<>>, thrown |-> <<"SyntaxError">>]
       ELSE IF data.event = STREAM_END /\ data.finish_reason # COMPLETE
         THEN [cache |-> <<>>, read |-> <<>>,
               thrown |-> << IF data.error \in {Absent, ""}
                               THEN "Stream ended unexpectedly" ELSE data.error >>]
       ELSE IF data.event = STREAM_END /\ Truthy(req.conversation_id)
         THEN [cache |-> << CacheCall(req.conversation_id, data.text) >>,
               read |-> <<data>>, thrown |-> <<>>]
       ELSE [cache |-> <<>>, read |-> <<data>>, thrown |-> <<>>]

RECURSIVE applyCacheCalls(_, _)
applyCacheCalls(calls, convs) ==
  IF calls = <<>> THEN convs
  ELSE applyCacheCalls(Tail(calls),
                       getUpdatedConversations(calls[1].id, calls[1].description, convs))

\* the values a chat promise rejects with: the class and the message
Err(class, message) == [class |-> class, message |-> message]

NoError == Err(Null, "")

\* the HTTP statuses of the opening response
Statuses == {200, 401}

\* what headers.get('X-Toolkit-Auth-Update') returns: null without the header,
\* else its value, which may be empty
AuthHeaders == {Null, "", "token2"}

\* handleAuthTokenUpdate leaving the stored token alone: the sink is called
\* with the token the client already had
handleAuthTokenUpdateKeepOld(token, header) == token

\* handleAuthTokenUpdate: the value of this.authToken after it, which is also
\* the argument of the onAuthTokenUpdate call
handleAuthTokenUpdate(token, header) ==
  IF header \notin {Null, ""} THEN header ELSE token

isUnauthorizedError(error) == error.class = "CohereUnauthorizedError"

\* retry allowing a second retry: failCount <= 1
retryTwice(failCount, error) ==
  IF isUnauthorizedError(error) THEN failCount <= 1 ELSE FALSE

\* retry allowing one retry whatever the error
retryAnyError(failCount, error) == failCount < 1

retry(failCount, error) ==
  IF isUnauthorizedError(error) THEN failCount < 1 ELSE FALSE

\* Rejected without the catch clause's invalidateQueries call
RejectedWithoutInvalidation(e) ==
  /\ rejection' = e
  /\ invalidations' = invalidations
  /\ IF retry(failureCount, e)
       THEN pc' = "retrying" /\ failureCount' = failureCount + 1
       ELSE pc' = "failed" /\ failureCount' = failureCount
  /\ UNCHANGED <<status, attempts, aborted>>

\* The chat promise rejects with e: the catch clause of mutationFn invalidates
\* the API key query when e is an unauthorized error and rejects with e; the
\* mutation then asks retry whether to run mutationFn again.
Rejected(e) ==
  /\ rejection' = e
  /\ invalidations' = invalidations + (IF isUnauthorizedError(e) THEN 1 ELSE 0)
  /\ IF retry(failureCount, e)
       THEN pc' = "retrying" /\ failureCount' = failureCount + 1
       ELSE pc' = "failed" /\ failureCount' = failureCount
  /\ UNCHANGED <<status, attempts, aborted>>

SessionIdle ==
  /\ pc = "idle"
  /\ cacheCalls = <<>>
  /\ received = <<>>
  /\ readCalls = <<>>
  /\ finishCalls = 0
  /\ errorCalls = <<>>
  /\ status = 0
  /\ rejection = NoError
  /\ failureCount = 0
  /\ attempts = 0
  /\ invalidations = 0
  /\ aborted = FALSE
  /\ authHeader = Null
  /\ authToken = "token1"
  /\ sinkCalls = <<>>
  /\ mounted = TRUE
  /\ controllers = <<>>
  /\ abortControllerRef = 0
  /\ chats = <<>>

SessionInit ==
  /\ SessionIdle
  /\ request \in Requests
  /\ conversations \in Caches

\* mutationFn up to the fetch that fetchEventSource issues, run by mutate()
\* and run again by the mutation after a failure that retry accepted
StartChat ==
  /\ pc \in {"idle", "retrying"}
  /\ pc' = "connecting"
  /\ LET call == CacheCall(OrEmpty(request.conversation_id), request.message)
     IN /\ cacheCalls' = Append(cacheCalls, call)
        /\ conversations' = applyCacheCalls(<<call>>, conversations)
  /\ attempts' = attempts + 1
  /\ aborted' = FALSE
  /\ status' = 0
  /\ UNCHANGED <<storeVars, request, received, readCalls, finishCalls, errorCalls,
                 rejection, failureCount, invalidations, authVars, handleVars>>

\* fetch rejects: fetchEventSource calls onerror, which calls onError and
\* rethrows, and the chat promise rejects
ConnectFail ==
  /\ pc = "connecting"
  /\ errorCalls' = Append(errorCalls, "Failed to fetch")
  /\ Rejected(Err("TypeError", "Failed to fetch"))
  /\ UNCHANGED <<storeVars, request, conversations, cacheCalls, received, readCalls, finishCalls,
                 authVars, handleVars>>

\* the response arrives: handleAuthUpdateOnOpen accepts it whatever its status
\* and runs handleAuthTokenUpdate on it before any of its body is read
Open ==
  \E st \in Statuses, header \in AuthHeaders :
    /\ pc = "connecting"
    /\ pc' = "streaming"
    /\ status' = st
    /\ authHeader' = header
    /\ authToken' = handleAuthTokenUpdate(authToken, header)
    /\ sinkCalls' = Append(sinkCalls, authToken')
    /\ UNCHANGED <<storeVars, request, conversations, cacheCalls, received, readCalls,
                   finishCalls, errorCalls, rejection, failureCount, attempts,
                   invalidations, aborted, handleVars>>

\* Message handing the newest event to onRead ahead of the earlier ones
MessageNewestFirst ==
  \E event \in Frames :
    /\ pc = "streaming"
    /\ status = 200
    /\ Len(received) < MaxFrames
    /\ received' = Append(received, event)
    /\ LET r == onMessage(request, event)
       IN /\ cacheCalls' = cacheCalls \o r.cache
          /\ conversations' = applyCacheCalls(r.cache, conversations)
          /\ readCalls' = r.read \o readCalls
          /\ errorCalls' = errorCalls \o r.thrown
          /\ IF r.thrown = <<>>
               THEN pc' = "streaming" /\ UNCHANGED mutationVars
               ELSE Rejected(Err("Error", r.thrown[1]))
    /\ UNCHANGED <<storeVars, request, finishCalls, authVars, handleVars>>

\* one frame arrives and onmessage runs on it; what it throws reaches onerror.
\* Only a response with status 200 carries an event stream: the body of a 401
\* response is a JSON error text in which the line parser finds no frame.
Message ==
  \E event \in Frames :
    /\ pc = "streaming"
    /\ status = 200
    /\ Len(received) < MaxFrames
    /\ received' = Append(received, event)
    /\ LET r == onMessage(request, event)
       IN /\ cacheCalls' = cacheCalls \o r.cache
          /\ conversations' = applyCacheCalls(r.cache, conversations)
          /\ readCalls' = readCalls \o r.read
          /\ errorCalls' = errorCalls \o r.thrown
          /\ IF r.thrown = <<>>
               THEN pc' = "streaming" /\ UNCHANGED mutationVars
               ELSE Rejected(Err("Error", r.thrown[1]))
    /\ UNCHANGED <<storeVars, request, finishCalls, authVars, handleVars>>

\* the response body ends: fetchEventSource calls onclose and resolves;
\* mutationFn returns undefined and onSuccess(undefined) updates nothing
Close ==
  /\ pc = "streaming"
  /\ pc' = "completed"
  /\ finishCalls' = finishCalls + 1
  /\ UNCHANGED <<storeVars, request, conversations, cacheCalls, received, readCalls, errorCalls,
                 mutationVars, authVars, handleVars>>

\* reading the body fails: as for a rejected fetch
StreamError ==
  /\ pc = "streaming"
  /\ errorCalls' = Append(errorCalls, "network error")
  /\ Rejected(Err("TypeError", "network error"))
  /\ UNCHANGED <<storeVars, request, conversations, cacheCalls, received, readCalls, finishCalls,
                 authVars, handleVars>>

\* Abort with the signal not handed to the connection: the flag is set and the
\* connection carries on
AbortWithoutSignal ==
  /\ pc \in {"connecting", "streaming", "completed", "failed", "retrying"}
  /\ ~aborted
  /\ aborted' = TRUE
  /\ UNCHANGED <<storeVars, pc, request, conversations, cacheCalls, received, readCalls,
                 finishCalls, errorCalls, status, rejection, failureCount, attempts,
                 invalidations, authVars, handleVars>>

\* abortControllerRef.current.abort(), by the unmount cleanup or by the holder
\* of the returned handle, between two runs of the connection's handlers: the
\* abort listener of fetchEventSource aborts the request and resolves the chat
\* promise without calling onclose or onerror; mutationFn returns.  On a
\* connection that already ended, and while the mutation waits to retry, only
\* the flag of that attempt's controller changes.
Abort ==
  /\ pc \in {"connecting", "streaming", "completed", "failed", "retrying"}
  /\ ~aborted
  /\ aborted' = TRUE
  /\ pc' = IF pc \in {"connecting", "streaming"} THEN "cancelled" ELSE pc
  /\ UNCHANGED <<storeVars, request, conversations, cacheCalls, received, readCalls,
                 finishCalls, errorCalls, status, rejection, failureCount, attempts,
                 invalidations, authVars, handleVars>>

\* the errors a chat promise can be made to reject with, whatever their origin
Rejections ==
  { Err("CohereUnauthorizedError", "Unauthorized"),
    Err("CohereNetworkError", "Something went wrong"),
    Err("TypeError", "Failed to fetch") }

\* cohereClient.chat rejects with an error handed on by onerror
Reject ==
  \E e \in Rejections :
    /\ pc \in {"connecting", "streaming"}
    /\ errorCalls' = Append(errorCalls, e.message)
    /\ Rejected(e)
    /\ UNCHANGED <<storeVars, request, conversations, cacheCalls, received, readCalls,
                   finishCalls, authVars, handleVars>>

(***************************************************************************)
(* Spec: the store, driven by any MaxSteps operations, no session running. *)
(***************************************************************************)
Init ==
  /\ StoreInit
  /\ SessionIdle
  /\ request = [conversation_id |-> Undefined, message |-> "question"]
  /\ conversations = NoCache

Next ==
  \/ StartFeedbackSession
  \/ UpdateStreamContent
  \/ CompleteStreams
  \/ CreateChunks
  \/ RecordFeedback
  \/ ShowNextChunk
  \/ ShowNextChunkForStream
  \/ SetSelectedText
  \/ ClearSelectedText
  \/ ResetFeedbackSession
  \/ ResetEverything

Spec == Init /\ [][Next]_vars

(***************************************************************************)
(* SessionSpec: one chat session, the store untouched.                     *)
(***************************************************************************)
SessionSpecInit ==
  /\ chunkedMessages = INITIAL_STATE
  /\ now = 0
  /\ steps = 0
  /\ lastOp = Op("init", Null, <<>>)
  /\ notified = <<>>
  /\ SessionInit

SessionNext ==
  \/ StartChat
  \/ ConnectFail
  \/ Open
  \/ Message
  \/ Close
  \/ StreamError
  \/ Abort

SessionSpec == SessionSpecInit /\ [][SessionNext]_vars

(***************************************************************************)
(* MutationSpec: the chat mutation with its retry policy.  The connection  *)
(* behaves as in SessionSpec and, besides, the chat promise may reject     *)
(* with any error of Rejections, an unauthorized one among them.           *)
(***************************************************************************)
MutationNext ==
  \/ StartChat
  \/ ConnectFail
  \/ Open
  \/ Message
  \/ Close
  \/ StreamError
  \/ Abort
  \/ Reject

MutationSpec == SessionSpecInit /\ [][MutationNext]_vars

(***************************************************************************)
(* HandleSpec: the abort handle of one useStreamChat.  chatMutation.mutate *)
(* may be called while the chat of an earlier call is still open: every    *)
(* call runs mutationFn, which puts a new AbortController into the one ref *)
(* and hands its signal to cohereClient.chat.                              *)
(***************************************************************************)
MaxChats == 3        \* mutate calls made through one hook

\* abortControllerRef.current?.abort(): the controller in the ref is aborted,
\* and fetchEventSource ends every open connection that was given its signal
abortCurrent(ref, ctrls, cs) ==
  [controllers |-> [i \in 1..Len(ctrls) |-> IF i = ref THEN TRUE ELSE ctrls[i]],
   chats |-> [k \in 1..Len(cs) |->
                IF cs[k].signal = ref /\ cs[k].connection = "open"
                  THEN [cs[k] EXCEPT !.connection = "aborted"]
                  ELSE cs[k]]]

HandleUnchanged ==
  UNCHANGED <<storeVars, pc, request, conversations, cacheCalls, received, readCalls,
              finishCalls, errorCalls, mutationVars, authVars>>

\* chatMutation.mutate(params): mutationFn creates the controller, stores it
\* in the ref and opens the connection with its signal
Mutate ==
  /\ mounted
  /\ Len(chats) < MaxChats
  /\ controllers' = Append(controllers, FALSE)
  /\ abortControllerRef' = Len(controllers')
  /\ chats' = Append(chats, [signal |-> Len(controllers'), connection |-> "open"])
  /\ UNCHANGED mounted
  /\ HandleUnchanged

\* the connection of a chat ends by itself: the body ends or an error is thrown
ChatEnds ==
  \E k \in 1..Len(chats) :
    /\ chats[k].connection = "open"
    /\ chats' = [chats EXCEPT ![k].connection = "ended"]
    /\ UNCHANGED <<mounted, controllers, abortControllerRef>>
    /\ HandleUnchanged

\* the holder of the returned abortController aborts the current controller
AbortHandle ==
  /\ mounted
  /\ abortControllerRef # 0
  /\ ~controllers[abortControllerRef]
  /\ LET r == abortCurrent(abortControllerRef, controllers, chats)
     IN controllers' = r.controllers /\ chats' = r.chats
  /\ UNCHANGED <<mounted, abortControllerRef>>
  /\ HandleUnchanged

\* the cleanup of the hook's effect, run when the component unmounts
Unmount ==
  /\ mounted
  /\ mounted' = FALSE
  /\ LET r == abortCurrent(abortControllerRef, controllers, chats)
     IN controllers' = r.controllers /\ chats' = r.chats
  /\ UNCHANGED abortControllerRef
  /\ HandleUnchanged

HandleNext ==
  \/ Mutate
  \/ ChatEnds
  \/ AbortHandle
  \/ Unmount

HandleSpec == SessionSpecInit /\ [][HandleNext]_vars

(***************************************************************************)
(* ChunkSpec: createChunks applied to responses of up to MaxTextLen        *)
(* characters with every chunk size up to MaxInputSize and the default.    *)
(***************************************************************************)
MaxTextLen == 5      \* longest text handed to the segmenter
MaxInputSize == 3    \* largest explicit chunk size handed to the segmenter

InputTexts == {[i \in 1..n |-> i] : n \in 0..MaxTextLen}

InputSizes == (1..MaxInputSize) \cup {DefaultChunkSize}

ChunkInit ==
  /\ \E t1 \in InputTexts, t2 \in InputTexts :
       chunkedMessages =
         updateStreamContent(updateStreamContent(INITIAL_STATE, "stream1", t1),
                             "stream2", t2)
  /\ now = 0
  /\ steps = 0
  /\ lastOp = Op("init", Null, <<>>)
  /\ notified = <<>>
  /\ SessionIdle
  /\ request = [conversation_id |-> Undefined, message |-> "question"]
  /\ conversations = NoCache

Chunk ==
  \E size \in InputSizes :
    /\ chunkedMessages' = createChunks(chunkedMessages, size)
    /\ lastOp' = Op("createChunks", Null, <<size>>)
    /\ notified' = <<chunkedMessages'>>
    /\ UNCHANGED <<now, steps, sessionVars>>

ChunkNext == Chunk

ChunkSpec == ChunkInit /\ [][ChunkNext]_vars

(***************************************************************************)
(* SizeSpec: createChunks called with any integer as the chunk size, zero  *)
(* and negative ones included.                                             *)
(***************************************************************************)
AnySizes == (-1..MaxInputSize) \cup {DefaultChunkSize}

RECURSIVE chunkLoopEnds(_, _, _)
\* whether the for loop of createTextChunks ends: an iteration that does not
\* increase i leaves the test i < text.length true for every later iteration
chunkLoopEnds(text, size, i) ==
  IF ~(i < Len(text)) THEN TRUE
  ELSE IF i + size <= i THEN FALSE
  ELSE chunkLoopEnds(text, size, i + size)

\* whether createTextChunks(text) returns
createTextChunksEnds(text, maxChunkSize) ==
  text = <<>> \/ chunkLoopEnds(text, maxChunkSize, 0)

\* a createChunks call is still running: its set() has called no listener
Hung == lastOp.op = "createChunks" /\ notified = <<>>

\* createChunks(size): when a loop does not end the updater never returns,
\* the state stays as it was, no listener is called and nothing else runs
ChunkAnySize ==
  \E size \in AnySizes :
    /\ ~Hung
    /\ IF \A s \in Stream : createTextChunksEnds(chunkedMessages.responses[s], size)
         THEN /\ chunkedMessages' = createChunks(chunkedMessages, size)
              /\ notified' = <<chunkedMessages'>>
         ELSE /\ chunkedMessages' = chunkedMessages
              /\ notified' = <<>>
    /\ lastOp' = Op("createChunks", Null, <<size>>)
    /\ UNCHANGED <<now, steps, sessionVars>>

SizeNext == ChunkAnySize

SizeSpec == ChunkInit /\ [][SizeNext]_vars

(***************************************************************************)
(* EvalSpec: one store operation applied to a store in the middle of an    *)
(* evaluation.  The initial states are those the operations build from the *)
(* arrived responses: chunked or not, a cursor advanced or not, a feedback *)
(* recorded or not, a selection made or not.                               *)
(***************************************************************************)
Arrived(t1, t2) ==
  updateStreamContent(updateStreamContent(INITIAL_STATE, "stream1", t1), "stream2", t2)

\* not chunked, chunked by createChunks(size), or chunked by completeStreams
Chunkings ==
  { [by |-> "none", size |-> 0], [by |-> "completeStreams", size |-> DefaultChunkSize] }
    \cup { [by |-> "createChunks", size |-> n] : n \in ChunkSizes }

Chunked(cm, c) ==
  IF c.by = "none" THEN cm
  ELSE IF c.by = "completeStreams" THEN completeStreams(cm)
  ELSE createChunks(cm, c.size)

Advances == {"none"} \cup Stream

Advanced(cm, a) == IF a = "none" THEN cm ELSE showNextChunkForStream(cm, a)

\* the panel records feedback for the chunk under the cursor of stream1
Recorded(cm, r) ==
  IF r /\ cm.chunks["stream1"] # <<>>
    THEN recordFeedback(cm, "stream1", cm.currentChunkIndices["stream1"],
                        [rating |-> "positive", comment |-> "ok",
                         selectedText |-> <<7>>, timestamp |-> <<0>>], 1)
    ELSE cm

Selected(cm, sel) ==
  IF sel THEN setSelectedText(cm, <<7>>, "stream2", cm.currentChunkIndices["stream2"])
  ELSE cm

EvalInit ==
  /\ \E t1 \in Texts, t2 \in Texts, c \in Chunkings, a \in Advances,
        r \in BOOLEAN, sel \in BOOLEAN :
       LET chunked == Chunked(Arrived(t1, t2), c)
       IN /\ chunkedMessages = Selected(Recorded(Advanced(chunked, a), r), sel)
          /\ now = IF r /\ chunked.chunks["stream1"] # <<>> THEN 1 ELSE 0
  /\ steps = MaxSteps - 1
  /\ lastOp = Op("init", Null, <<>>)
  /\ notified = <<>>
  /\ SessionIdle
  /\ request = [conversation_id |-> Undefined, message |-> "question"]
  /\ conversations = NoCache

EvalSpec == EvalInit /\ [][Next]_vars

(***************************************************************************)
(* PanelSpec: the feedback panels of the two streams, driven by the prefer *)
(* button (or its key 1 / 2) and by the submit button (or Enter in the     *)
(* comment field), on a store that was chunked and whose evaluation has    *)
(* started.  A stream whose response is empty has no chunk.                *)
(***************************************************************************)
\* the trimmed contents of the comment field
Comments == {"", "ok"}

\* prepareFeedbackWithSelection(rating): highlightedText is the panel's own
\* copy of the last selection, used when the store's selection is not for
\* this panel's stream
prepareFeedbackWithSelection(cm, streamId, rating, comment, highlightedText, t) ==
  [rating |-> rating,
   comment |-> comment,
   selectedText |-> IF cm.activeFeedback.streamId = streamId
                      THEN cm.selectedText ELSE highlightedText,
   timestamp |-> <<t>>]

\* the comment field and the submit button are rendered only before the last
\* section
SubmitShown(cm, streamId) ==
  cm.currentChunkIndices[streamId] < Len(cm.chunks[streamId]) - 1

\* handlePreferSection, by the button or, through handleKeyDown, by the key
\* of the panel's stream: the three store calls, each a set()
HandlePreferSection ==
  \E s \in Stream, comment \in Comments, highlightedText \in SelTexts :
    /\ now < MaxTime
    /\ now' = now + 1
    /\ LET currentChunkIndex == chunkedMessages.currentChunkIndices[s]
           feedback == prepareFeedbackWithSelection(chunkedMessages, s, "positive",
                                                    comment, highlightedText, now)
           recorded == recordFeedback(chunkedMessages, s, currentChunkIndex, feedback, now')
           cleared == clearSelectedText(recorded)
       IN /\ chunkedMessages' = showNextChunk(cleared)
          /\ lastOp' = Op("handlePreferSection", s, <<currentChunkIndex>>)
          /\ notified' = <<recorded, cleared, chunkedMessages'>>
    /\ StoreTick

\* handleSubmitFeedback, by the submit button or by Enter in the comment field
HandleSubmitFeedback ==
  \E s \in Stream, comment \in Comments, highlightedText \in SelTexts :
    /\ SubmitShown(chunkedMessages, s)
    /\ now < MaxTime
    /\ now' = now + 1
    /\ LET currentChunkIndex == chunkedMessages.currentChunkIndices[s]
           feedback == prepareFeedbackWithSelection(chunkedMessages, s, Absent,
                                                    comment, highlightedText, now)
           recorded == recordFeedback(chunkedMessages, s, currentChunkIndex, feedback, now')
       IN /\ chunkedMessages' = showNextChunk(recorded)
          /\ lastOp' = Op("handleSubmitFeedback", s, <<currentChunkIndex>>)
          /\ notified' = <<recorded, chunkedMessages'>>
    /\ StoreTick

PanelInit ==
  /\ \E t1 \in Texts, t2 \in Texts, c \in Chunkings \ {[by |-> "none", size |-> 0]} :
       chunkedMessages = startFeedbackSession(Chunked(Arrived(t1, t2), c))
  /\ now = 0
  /\ steps = 0
  /\ lastOp = Op("init", Null, <<>>)
  /\ notified = <<>>
  /\ SessionIdle
  /\ request = [conversation_id |-> Undefined, message |-> "question"]
  /\ conversations = NoCache

PanelNext ==
  \/ HandlePreferSection
  \/ HandleSubmitFeedback
  \/ SetSelectedText

PanelSpec == PanelInit /\ [][PanelNext]_vars

(***************************************************************************)
(* CompleteSpec: completeStreams applied to responses long enough for the  *)
(* default chunk size to cut them, fresh or chunked and advanced before.   *)
(***************************************************************************)
LongLens == {0, 1, 500, 800, 801, 1000, 1601}

LongText(n) == [i \in 1..n |-> i]

CompleteInit ==
  /\ \E n1 \in LongLens, n2 \in LongLens, earlier \in BOOLEAN :
       LET arrived == Arrived(LongText(n1), LongText(n2))
       IN chunkedMessages =
            IF earlier THEN showNextChunkForStream(completeStreams(arrived), "stream1")
            ELSE arrived
  /\ now = 0
  /\ steps = MaxSteps - 1
  /\ lastOp = Op("init", Null, <<>>)
  /\ notified = <<>>
  /\ SessionIdle
  /\ request = [conversation_id |-> Undefined, message |-> "question"]
  /\ conversations = NoCache

CompleteNext == CompleteStreams

CompleteSpec == CompleteInit /\ [][CompleteNext]_vars

(***************************************************************************)
(* RevealSpec: the reveal of a chunked evaluation.  Only the two advance   *)
(* operations run, any number of times; each stream keeps being advanced,  *)
(* by showNextChunk or by its own showNextChunkForStream.                  *)
(***************************************************************************)
MaxRevealLen == 4    \* longest response text of a reveal

RevealBoth ==
  /\ chunkedMessages' = showNextChunk(chunkedMessages)
  /\ lastOp' = Op("showNextChunk", Null, <<>>)
  /\ notified' = <<chunkedMessages'>>
  /\ UNCHANGED <<now, steps, sessionVars>>

RevealStream(s) ==
  /\ chunkedMessages' = showNextChunkForStream(chunkedMessages, s)
  /\ lastOp' = Op("showNextChunkForStream", s, <<>>)
  /\ notified' = <<chunkedMessages'>>
  /\ UNCHANGED <<now, steps, sessionVars>>

RevealInit ==
  /\ \E n1 \in 0..MaxRevealLen, n2 \in 0..MaxRevealLen, size \in ChunkSizes :
       chunkedMessages =
         startFeedbackSession(createChunks(Arrived(LongText(n1), LongText(n2)), size))
  /\ now = 0
  /\ steps = 0
  /\ lastOp = Op("init", Null, <<>>)
  /\ notified = <<>>
  /\ SessionIdle
  /\ request = [conversation_id |-> Undefined, message |-> "question"]
  /\ conversations = NoCache

RevealNext ==
  \/ RevealBoth
  \/ \E s \in Stream : RevealStream(s)

RevealSpec ==
  /\ RevealInit
  /\ [][RevealNext]_vars
  /\ \A s \in Stream : WF_vars(RevealBoth \/ RevealStream(s))

(***************************************************************************)
(* The claims.                                                             *)
(***************************************************************************)
RECURSIVE Concat(_)
\* the texts of a sequence joined in index order
Concat(seq) == IF seq = <<>> THEN <<>> ELSE seq[1] \o Concat(Tail(seq))

CeilDiv(a, b) == (a + b - 1) \div b

ChunksMatchResponses(cm) ==
  \A s \in Stream : Concat(cm.chunks[s]) = cm.responses[s]

SomeChunkExists == \E s \in Stream : chunkedMessages.chunks[s] # <<>>

\* C1: once chunks exist, after any sequence of store operations the feedback
\* array of each stream is exactly as long as its chunk array.
C1_FeedbackLengthMatchesChunks ==
  SomeChunkExists =>
    \A s \in Stream :
      Len(chunkedMessages.feedback[s].elems) = Len(chunkedMessages.chunks[s])

\* C2: in every reachable state each cursor lies between 0 and
\* max(0, len(chunks[s]) - 1).
C2_CursorWithinBounds ==
  \A s \in Stream :
    /\ 0 <= chunkedMessages.currentChunkIndices[s]
    /\ chunkedMessages.currentChunkIndices[s]
         <= Max(0, Len(chunkedMessages.chunks[s]) - 1)

\* C3: createChunks with chunk size N > 0 gives each stream a chunk sequence
\* whose concatenation in order is the stream's response and whose length is
\* ceil(len(response) / N), 0 for the empty response.
C3_ChunksPartitionText ==
  lastOp.op = "createChunks" =>
    \A s \in Stream :
      /\ Concat(chunkedMessages.chunks[s]) = chunkedMessages.responses[s]
      /\ Len(chunkedMessages.chunks[s])
           = CeilDiv(Len(chunkedMessages.responses[s]), lastOp.arg[1])

\* C3 witness: a five-character response cut at size 2 into three chunks, the
\* last one shorter, beside an empty response cut into none.
C3_Witness ==
  /\ lastOp = Op("createChunks", Null, <<2>>)
  /\ Len(chunkedMessages.responses["stream1"]) = 5
  /\ Len(chunkedMessages.chunks["stream1"]) = 3
  /\ chunkedMessages.responses["stream2"] = <<>>
  /\ chunkedMessages.chunks["stream2"] = <<>>

\* C4 as stated: whenever chunks exist, concatenating chunks[s] in index order
\* gives responses[s], also after updateStreamContent follows chunk creation.
C4_ChunksAlwaysMatchResponses ==
  SomeChunkExists => ChunksMatchResponses(chunkedMessages)

\* C4 amended: right after createChunks or completeStreams the concatenation
\* of chunks[s] is responses[s] for each stream, and every store operation
\* other than updateStreamContent keeps it so.
C4_ChunksMatchUntilContentUpdate ==
  [][ /\ lastOp'.op \in {"createChunks", "completeStreams"}
           => ChunksMatchResponses(chunkedMessages')
      /\ (ChunksMatchResponses(chunkedMessages) /\ lastOp'.op # "updateStreamContent")
           => ChunksMatchResponses(chunkedMessages') ]_vars

\* C4 witness: a startFeedbackSession restart over two existing chunks, the
\* chunks still spelling the response.
C4_Witness ==
  /\ lastOp.op = "startFeedbackSession"
  /\ Len(chunkedMessages.chunks["stream1"]) = 2
  /\ ChunksMatchResponses(chunkedMessages)

Aggregate(cm) ==
  <<cm.feedback, cm.chunks, cm.responses, cm.currentChunkIndices, cm.isComplete,
    cm.isChunked>>

\* C5: recordFeedback with chunkIndex < 0 or chunkIndex >= len(chunks[streamId])
\* leaves feedback, chunks, responses, cursors and flags as they were.
C5_OutOfRangeRecordIsNoOp ==
  [][ ( /\ lastOp'.op = "recordFeedback"
        /\ \/ lastOp'.arg[1] < 0
           \/ lastOp'.arg[1] >= Len(chunkedMessages.chunks[lastOp'.streamId]) )
        => Aggregate(chunkedMessages') = Aggregate(chunkedMessages) ]_vars

AdvanceStaysInRange(s) ==
  /\ chunkedMessages'.currentChunkIndices[s] <= Len(chunkedMessages.chunks[s]) - 1
  /\ chunkedMessages'.currentChunkIndices[s] >= chunkedMessages.currentChunkIndices[s]

\* C6: neither showNextChunkForStream(s) nor showNextChunk yields a cursor
\* above len(chunks[s]) - 1 or below the cursor before the call.
C6_AdvanceBoundedAndMonotonic ==
  [][ /\ lastOp'.op = "showNextChunk" => \A s \in Stream : AdvanceStaysInRange(s)
      /\ lastOp'.op = "showNextChunkForStream" => AdvanceStaysInRange(lastOp'.streamId)
    ]_vars

IsJson(event) == event.data.kind = "json"

IsStreamEnd(event) == IsJson(event) /\ event.data.json.event = STREAM_END

IsComplete(event) == IsStreamEnd(event) /\ event.data.json.finish_reason = COMPLETE

\* a frame onMessage rejects: data that is not JSON, or a stream-end event whose
\* finish reason is not COMPLETE
IsRejected(event) ==
  \/ event.data.kind = "malformed"
  \/ IsStreamEnd(event) /\ ~IsComplete(event)

RECURSIVE Payloads(_)
\* the decoded payloads of the JSON frames of a sequence, in order
Payloads(frames) ==
  IF frames = <<>> THEN <<>>
  ELSE (IF IsJson(frames[1]) /\ ~IsRejected(frames[1])
          THEN <<frames[1].data.json>> ELSE <<>>) \o Payloads(Tail(frames))

RECURSIVE TerminalCalls(_, _)
\* one cache update with the terminal text per COMPLETE stream-end frame
TerminalCalls(id, frames) ==
  IF frames = <<>> THEN <<>>
  ELSE (IF IsComplete(frames[1])
          THEN << CacheCall(id, frames[1].data.json.text) >> ELSE <<>>)
       \o TerminalCalls(id, Tail(frames))

StartCall == CacheCall(OrEmpty(request.conversation_id), request.message)

LastReceived == received[Len(received)]

\* C7 as stated: onFinish is called at most once and only after a stream-end
\* event with finish reason COMPLETE was received.
C7_FinishOnlyAfterCompleteEvent ==
  /\ finishCalls <= 1
  /\ finishCalls > 0 => \E i \in 1..Len(received) : IsComplete(received[i])

\* C7 amended: onFinish is called at most once, and exactly when the connection
\* closes after every received frame was handled without an error, whether or
\* not a stream-end event was among them; no onError call goes with it.
C7_FinishOncePerCleanClose ==
  /\ finishCalls <= 1
  /\ finishCalls = 1 <=> pc = "completed"
  /\ finishCalls = 1 =>
       /\ errorCalls = <<>>
       /\ \A i \in 1..Len(received) : ~IsRejected(received[i])

\* C7 witness: a connection that delivered a data event and no stream-end event
\* closed, and onFinish was called.
C7_Witness ==
  /\ finishCalls = 1
  /\ \E i \in 1..Len(received) : IsJson(received[i])
  /\ \A i \in 1..Len(received) : ~IsStreamEnd(received[i])

\* C8: the events handed to onRead are the decoded frames in the order the
\* frames arrived, each handed over before the next frame is taken.
C8_ReadCallsInArrivalOrder ==
  readCalls = Payloads(received)

\* C8 witness: two different data events arrived and were read in that order.
C8_Witness ==
  /\ Len(readCalls) = 2
  /\ readCalls[1].id = 1
  /\ readCalls[2].id = 2

\* C9 as stated: a session whose frames end in a COMPLETE stream-end event and
\* that closed has made exactly one cache update, with the terminal text, one
\* onFinish call and no onError call.
C9_ExactlyOneCacheUpdate ==
  (pc = "completed" /\ received # <<>> /\ IsComplete(LastReceived)) =>
    /\ Len(cacheCalls) = 1
    /\ cacheCalls[1].description = LastReceived.data.json.text
    /\ finishCalls = 1
    /\ errorCalls = <<>>

\* C9 amended: a session that closed after a COMPLETE stream-end event has
\* updated the cache once at its start, with the request message, and after
\* that once per COMPLETE stream-end event with that event's text when the
\* request carries a conversation id, and not at all when it carries none;
\* onFinish was called once and onError never.
C9_CacheUpdatesOfCompletedSession ==
  (pc = "completed" /\ received # <<>> /\ IsComplete(LastReceived)) =>
    /\ cacheCalls =
         <<StartCall>> \o (IF Truthy(request.conversation_id)
                             THEN TerminalCalls(request.conversation_id, received)
                             ELSE <<>>)
    /\ conversations.defined =>
         \A i \in 1..Len(conversations.list) :
           conversations.list[i].id = request.conversation_id
             => conversations.list[i].description = LastReceived.data.json.text
    /\ finishCalls = 1
    /\ errorCalls = <<>>

\* C9 witness: frames data, data, stream-end(COMPLETE) on a request with a
\* conversation id, then close: two reads before the terminal one, the cached
\* conversation carrying the terminal text.
C9_Witness ==
  /\ pc = "completed"
  /\ Len(received) = 3
  /\ ~IsStreamEnd(received[1]) /\ IsJson(received[1])
  /\ ~IsStreamEnd(received[2]) /\ IsJson(received[2])
  /\ IsComplete(received[3])
  /\ request.conversation_id = "c1"
  /\ conversations.defined
  /\ conversations.list[1].description = "final text"
  /\ Len(cacheCalls) = 2

FailureReason(event) ==
  IF event.data.json.error \in {Absent, ""} THEN "Stream ended unexpectedly"
  ELSE event.data.json.error

EndedNotComplete ==
  received # <<>> /\ IsStreamEnd(LastReceived) /\ ~IsComplete(LastReceived)

\* C10 as stated: after a stream-end event whose finish reason is not COMPLETE,
\* onError was called with the attached error text, onFinish was not called,
\* and the session made no cache update at all.
C10_NoCacheUpdateOnFailure ==
  EndedNotComplete =>
    /\ errorCalls = <<LastReceived.data.json.error>>
    /\ finishCalls = 0
    /\ cacheCalls = <<>>

\* C10 amended: after a stream-end event whose finish reason is not COMPLETE,
\* onError was called once, with the attached error text or, when there is
\* none, with "Stream ended unexpectedly"; onFinish was not called; and the
\* event caused no cache update: the session's updates are the one made at its
\* start with the request message and those of earlier COMPLETE events.
C10_FailureReportedWithoutTerminalUpdate ==
  EndedNotComplete =>
    /\ pc = "failed"
    /\ errorCalls = <<FailureReason(LastReceived)>>
    /\ finishCalls = 0
    /\ cacheCalls =
         <<StartCall>> \o (IF Truthy(request.conversation_id)
                             THEN TerminalCalls(request.conversation_id, received)
                             ELSE <<>>)

\* C10 witness: the only frame is a stream-end event with reason ERROR and
\* error text content_filter, on a request with a conversation id.
C10_Witness ==
  /\ Len(received) = 1
  /\ EndedNotComplete
  /\ errorCalls = <<"content_filter">>
  /\ request.conversation_id = "c1"
  /\ cacheCalls = <<StartCall>>

\* C11: the mutation retries at most once: mutationFn runs at most twice, a
\* retry follows only a first failure with an unauthorized error, and a failure
\* of the second run, unauthorized or not, is reported as the failure of the
\* mutation and not retried.
C11_RetryAtMostOnce ==
  /\ attempts <= 2
  /\ failureCount <= 1
  /\ pc = "retrying" => (attempts = 1 /\ failureCount = 1 /\ isUnauthorizedError(rejection))
  /\ attempts = 2 => (failureCount = 1 /\ pc # "retrying")
  /\ (attempts = 2 /\ pc = "failed") =>
       (errorCalls # <<>> /\ errorCalls[Len(errorCalls)] = rejection.message)

\* C11 witness: two runs, each rejected with an unauthorized error; the second
\* rejection is the failure of the mutation.
C11_Witness ==
  /\ attempts = 2
  /\ pc = "failed"
  /\ isUnauthorizedError(rejection)
  /\ invalidations = 2
  /\ Len(errorCalls) = 2

SessionEnded == pc \in {"completed", "failed", "retrying"}

\* C12: a session whose opening response had status 401 ends as a failure:
\* onError was called with an unauthorized error, onFinish was not called, and
\* the mutation may retry once.
C12_UnauthorizedResponseFails ==
  (status = 401 /\ SessionEnded) =>
    /\ pc \in {"failed", "retrying"}
    /\ isUnauthorizedError(rejection)
    /\ errorCalls # <<>>
    /\ finishCalls = 0
    /\ failureCount = 0 => pc = "retrying"

IsMalformed(event) == event.data.kind = "malformed"

\* C14: a frame whose data is not JSON is the last frame the session takes; it
\* is handed to onError exactly once, the frames before it and no others reached
\* onRead, onFinish is not called, and mutationFn is not run again.
C14_MalformedFrameEndsSession ==
  \A i \in 1..Len(received) :
    IsMalformed(received[i]) =>
      /\ i = Len(received)
      /\ pc = "failed"
      /\ Len(errorCalls) = 1
      /\ readCalls = Payloads(SubSeq(received, 1, i - 1))
      /\ finishCalls = 0
      /\ attempts = 1
      /\ failureCount = 0

\* C14 witness: a data event was read, then a malformed frame arrived.
C14_Witness ==
  /\ Len(received) = 2
  /\ IsJson(received[1])
  /\ IsMalformed(received[2])
  /\ Len(readCalls) = 1
  /\ errorCalls = <<"SyntaxError">>

SelectionCleared(cm) ==
  /\ cm.selectedText = <<>>
  /\ cm.activeFeedback = [streamId |-> Null, chunkIndex |-> <<>>]

\* C15: in every reachable state activeFeedback.streamId names a stream only
\* if selectedText is a non-empty text, and clearSelectedText leaves the text
\* empty and streamId and chunkIndex null.
C15_SelectionStreamOnlyWithText ==
  /\ chunkedMessages.activeFeedback.streamId \in Stream
       => chunkedMessages.selectedText # <<>>
  /\ lastOp.op = "clearSelectedText" => SelectionCleared(chunkedMessages)

\* C16: setSelectedText with the empty text, whatever the stream and chunk
\* index, gives the state clearSelectedText gives from the same state.
C16_EmptySelectionIsClear ==
  [][ (lastOp'.op = "setSelectedText" /\ chunkedMessages'.selectedText = <<>>)
        => /\ SelectionCleared(chunkedMessages')
           /\ chunkedMessages' =
                [chunkedMessages EXCEPT
                   !.selectedText = <<>>,
                   !.activeFeedback = [streamId |-> Null, chunkIndex |-> <<>>]] ]_vars

NoChunkExists(cm) == \A s \in Stream : cm.chunks[s] = <<>>

AllEmptyEntries(arr, count) ==
  /\ Len(arr.elems) = count
  /\ \A i \in 1..count : arr.elems[i] = EmptyEntry
  /\ arr.props = <<>>

\* C17 as stated: startFeedbackSession in a state without chunks sets every
\* field to its empty default, responses, isComplete and the selection
\* included, and isChunked to true.
C17_StartWithoutChunksClearsAll ==
  [][ (lastOp'.op = "startFeedbackSession" /\ NoChunkExists(chunkedMessages))
        => /\ \A s \in Stream :
                /\ chunkedMessages'.responses[s] = <<>>
                /\ chunkedMessages'.chunks[s] = <<>>
                /\ AllEmptyEntries(chunkedMessages'.feedback[s], 0)
                /\ chunkedMessages'.currentChunkIndices[s] = 0
           /\ chunkedMessages'.isComplete = FALSE
           /\ SelectionCleared(chunkedMessages')
           /\ chunkedMessages'.isChunked = TRUE ]_vars

\* C17 amended: startFeedbackSession in a state without chunks resets both
\* cursors to 0 and both feedback arrays to the empty array and sets isChunked
\* to true; responses, the (empty) chunks, isComplete and the selection stay
\* as they were.
C17_StartWithoutChunksKeepsResponses ==
  [][ (lastOp'.op = "startFeedbackSession" /\ NoChunkExists(chunkedMessages))
        => /\ \A s \in Stream :
                /\ chunkedMessages'.responses[s] = chunkedMessages.responses[s]
                /\ chunkedMessages'.chunks[s] = <<>>
                /\ AllEmptyEntries(chunkedMessages'.feedback[s], 0)
                /\ chunkedMessages'.currentChunkIndices[s] = 0
           /\ chunkedMessages'.isComplete = chunkedMessages.isComplete
           /\ chunkedMessages'.selectedText = chunkedMessages.selectedText
           /\ chunkedMessages'.activeFeedback = chunkedMessages.activeFeedback
           /\ chunkedMessages'.isChunked = TRUE ]_vars

\* C17 witness: startFeedbackSession ran on arrived, unchunked responses with
\* a selection made; the response and the selection are still there.
C17_Witness ==
  /\ lastOp.op = "startFeedbackSession"
  /\ NoChunkExists(chunkedMessages)
  /\ chunkedMessages.responses["stream1"] # <<>>
  /\ chunkedMessages.selectedText = <<7>>
  /\ chunkedMessages.isChunked

\* C18: startFeedbackSession in a state with chunks leaves responses and chunks
\* as they were, sets both cursors to 0, makes each stream's feedback an array
\* of empty entries as long as the stream's chunk array, and sets isChunked.
C18_RestartKeepsChunksResetsFeedback ==
  [][ (lastOp'.op = "startFeedbackSession" /\ ~NoChunkExists(chunkedMessages))
        => /\ chunkedMessages'.responses = chunkedMessages.responses
           /\ chunkedMessages'.chunks = chunkedMessages.chunks
           /\ \A s \in Stream :
                /\ chunkedMessages'.currentChunkIndices[s] = 0
                /\ AllEmptyEntries(chunkedMessages'.feedback[s],
                                   Len(chunkedMessages.chunks[s]))
           /\ chunkedMessages'.isChunked = TRUE ]_vars

\* C18 witness: startFeedbackSession ran over two chunks after a feedback had
\* been recorded (the clock moved); the feedback is empty again, the cursor 0.
C18_Witness ==
  /\ lastOp.op = "startFeedbackSession"
  /\ Len(chunkedMessages.chunks["stream1"]) = 2
  /\ now = 1
  /\ AllEmptyEntries(chunkedMessages.feedback["stream1"], 2)
  /\ chunkedMessages.currentChunkIndices["stream1"] = 0

\* chunks cut text into consecutive pieces of n characters, the last one of 1
\* to n characters; no piece for the empty text
PartitionAt(chunks, text, n) ==
  /\ Concat(chunks) = text
  /\ \A i \in 1..Len(chunks) :
       /\ i < Len(chunks) => Len(chunks[i]) = n
       /\ i = Len(chunks) => (1 <= Len(chunks[i]) /\ Len(chunks[i]) <= n)

\* C19: after completeStreams isComplete is true, both cursors are 0, each
\* stream's chunks are the partition of its response at size 800 and its
\* feedback is an array of empty entries of the same length.
C19_CompleteChunksAtDefaultSize ==
  lastOp.op = "completeStreams" =>
    /\ chunkedMessages.isComplete = TRUE
    /\ \A s \in Stream :
         /\ chunkedMessages.currentChunkIndices[s] = 0
         /\ PartitionAt(chunkedMessages.chunks[s], chunkedMessages.responses[s], 800)
         /\ AllEmptyEntries(chunkedMessages.feedback[s], Len(chunkedMessages.chunks[s]))

\* C19 witness: responses of 1000 and 500 characters, cut into 800 + 200 and
\* into 500, with two and one empty feedback entries.
C19_Witness ==
  /\ lastOp.op = "completeStreams"
  /\ Len(chunkedMessages.responses["stream1"]) = 1000
  /\ Len(chunkedMessages.responses["stream2"]) = 500
  /\ Len(chunkedMessages.chunks["stream1"]) = 2
  /\ Len(chunkedMessages.chunks["stream1"][1]) = 800
  /\ Len(chunkedMessages.chunks["stream1"][2]) = 200
  /\ Len(chunkedMessages.chunks["stream2"]) = 1
  /\ Len(chunkedMessages.chunks["stream2"][1]) = 500
  /\ Len(chunkedMessages.feedback["stream1"].elems) = 2
  /\ Len(chunkedMessages.feedback["stream2"].elems) = 1

\* C20: createChunks with size N > 0 makes segment i of a text the characters
\* (i-1)N+1 .. min(iN, len) of it: every segment but the last has N
\* characters, the last has 1 to N and ends the text, and the empty text
\* has no segment.
C20_SegmentsContiguousOfSizeN ==
  lastOp.op = "createChunks" =>
    \A s \in Stream :
      LET n == lastOp.arg[1]
          text == chunkedMessages.responses[s]
          segs == chunkedMessages.chunks[s]
      IN /\ (text = <<>>) <=> (segs = <<>>)
         /\ \A i \in 1..Len(segs) :
              /\ segs[i] = SubSeq(text, (i - 1) * n + 1, Min(i * n, Len(text)))
              /\ i < Len(segs) => Len(segs[i]) = n
              /\ i = Len(segs) =>
                   /\ 1 <= Len(segs[i]) /\ Len(segs[i]) <= n
                   /\ (i - 1) * n + Len(segs[i]) = Len(text)

\* C20 witness: five characters cut at size 3 into 1 2 3 and 4 5, beside
\* three characters cut into one whole segment.
C20_Witness ==
  /\ lastOp = Op("createChunks", Null, <<3>>)
  /\ chunkedMessages.chunks["stream1"] = << <<1, 2, 3>>, <<4, 5>> >>
  /\ chunkedMessages.chunks["stream2"] = << <<1, 2, 3>> >>

\* the recordFeedback call that made the step wrote inside the chunk array
RecordedInRange ==
  /\ lastOp'.op = "recordFeedback"
  /\ 0 <= lastOp'.arg[1]
  /\ lastOp'.arg[1] < Len(chunkedMessages.chunks[lastOp'.streamId])

SameButTimestamp(a, b) == [a EXCEPT !.timestamp = <<>>] = [b EXCEPT !.timestamp = <<>>]

\* C21: recordFeedback(s, i, entry) with 0 <= i < len(chunks[s]) makes
\* feedback[s][i] the entry with the time of the call as timestamp, whatever
\* timestamp the entry came with and whatever was stored before, clears the
\* selection and changes nothing else: not another entry of either stream, not
\* chunks, responses, cursors or flags.
C21_RecordWritesOneEntry ==
  [][ RecordedInRange =>
        LET s == lastOp'.streamId
            k == lastOp'.arg[1] + 1
            before == chunkedMessages.feedback[s]
            after == chunkedMessages'.feedback[s]
        IN /\ \E entry \in FeedbackInputs :
                after.elems[k] = [entry EXCEPT !.timestamp = <<now'>>]
           /\ now' = now + 1
           /\ Len(after.elems) = Len(before.elems)
           /\ \A j \in 1..Len(before.elems) : j # k => after.elems[j] = before.elems[j]
           /\ after.props = before.props
           /\ \A o \in Stream \ {s} :
                chunkedMessages'.feedback[o] = chunkedMessages.feedback[o]
           /\ SelectionCleared(chunkedMessages')
           /\ chunkedMessages'.chunks = chunkedMessages.chunks
           /\ chunkedMessages'.responses = chunkedMessages.responses
           /\ chunkedMessages'.currentChunkIndices = chunkedMessages.currentChunkIndices
           /\ chunkedMessages'.isComplete = chunkedMessages.isComplete
           /\ chunkedMessages'.isChunked = chunkedMessages.isChunked ]_vars

\* C21 witness: over a recorded entry with a rating, a comment and an excerpt,
\* an entry without rating was recorded at the second reading of the clock;
\* the stored entry has no rating and the time of the second call.
C21_Witness ==
  /\ lastOp.op = "recordFeedback"
  /\ lastOp.streamId = "stream1"
  /\ now = 2
  /\ Len(chunkedMessages.feedback["stream1"].elems) = 2
  /\ \E k \in 1..2 :
       /\ k = lastOp.arg[1] + 1
       /\ chunkedMessages.feedback["stream1"].elems[k].rating = Absent
       /\ chunkedMessages.feedback["stream1"].elems[k].timestamp = <<2>>
       /\ chunkedMessages.feedback["stream1"].elems[3 - k] = EmptyEntry

\* C22: recordFeedback of an entry at an in-range index that already holds
\* that entry changes the entry's timestamp to that of the later call, clears
\* the selection and changes nothing else: the array keeps its length and
\* holds the entry once.
C22_RecordTwiceIsRecordOnce ==
  [][ ( /\ RecordedInRange
        /\ lastOp'.arg[1] < Len(chunkedMessages.feedback[lastOp'.streamId].elems)
        /\ SameButTimestamp(
             chunkedMessages'.feedback[lastOp'.streamId].elems[lastOp'.arg[1] + 1],
             chunkedMessages.feedback[lastOp'.streamId].elems[lastOp'.arg[1] + 1]) )
        => LET s == lastOp'.streamId
               k == lastOp'.arg[1] + 1
           IN /\ chunkedMessages' =
                   [chunkedMessages EXCEPT
                      !.feedback[s].elems[k].timestamp = <<now'>>,
                      !.selectedText = <<>>,
                      !.activeFeedback = [streamId |-> Null, chunkIndex |-> <<>>]]
              /\ chunkedMessages.feedback[s].elems[k].timestamp # <<>>
                   => chunkedMessages.feedback[s].elems[k].timestamp[1] < now' ]_vars

\* C22 witness: the entry recorded at the first reading of the clock was
\* recorded again at the second; it is there once, with the later time.
C22_Witness ==
  /\ lastOp.op = "recordFeedback"
  /\ lastOp.streamId = "stream1"
  /\ now = 2
  /\ Len(chunkedMessages.chunks["stream1"]) = 2
  /\ Len(chunkedMessages.feedback["stream1"].elems) = 2
  /\ \E k \in 1..2 :
       /\ k = lastOp.arg[1] + 1
       /\ chunkedMessages.feedback["stream1"].elems[k] =
            [rating |-> "positive", comment |-> "ok", selectedText |-> <<7>>,
             timestamp |-> <<2>>]
       /\ chunkedMessages.feedback["stream1"].elems[3 - k] = EmptyEntry

\* C23: showNextChunkForStream(s) moves the cursor of s to
\* min(cursor + 1, max(0, len(chunks[s]) - 1)), keeps the recorded feedback and
\* leaves the store without an active selection.
C23_AdvanceClearsSelection ==
  [][ lastOp'.op = "showNextChunkForStream" =>
        LET s == lastOp'.streamId
        IN /\ chunkedMessages'.currentChunkIndices[s] =
                Min(chunkedMessages.currentChunkIndices[s] + 1,
                    Max(0, Len(chunkedMessages.chunks[s]) - 1))
           /\ chunkedMessages'.feedback = chunkedMessages.feedback
           /\ SelectionCleared(chunkedMessages') ]_vars

\* C24: showNextChunk gives in one step the state that showNextChunkForStream
\* for stream1 and then for stream2 give from the same state, also when a
\* stream has no chunk.
C24_AdvanceBothIsAdvanceEach ==
  [][ lastOp'.op = "showNextChunk" =>
        chunkedMessages' =
          showNextChunkForStream(showNextChunkForStream(chunkedMessages, "stream1"),
                                 "stream2") ]_vars

Advancing == {"showNextChunk", "showNextChunkForStream"}

Resetting ==
  {"startFeedbackSession", "completeStreams", "resetFeedbackSession", "resetEverything"}

\* C25 as stated: no store operation lowers a cursor, and a cursor changes
\* only through showNextChunkForStream and showNextChunk.
C25_CursorsOnlyAdvance ==
  [][ \A s \in Stream :
        /\ chunkedMessages'.currentChunkIndices[s] # chunkedMessages.currentChunkIndices[s]
             => lastOp'.op \in Advancing
        /\ chunkedMessages'.currentChunkIndices[s] >= chunkedMessages.currentChunkIndices[s]
    ]_vars

\* C25 amended: a cursor changes only through showNextChunkForStream,
\* showNextChunk and the four operations that set both cursors to 0
\* (startFeedbackSession, completeStreams, resetFeedbackSession,
\* resetEverything); every other operation leaves both cursors as they were.
C25_CursorsAdvanceOrReset ==
  [][ \A s \in Stream :
        /\ chunkedMessages'.currentChunkIndices[s] # chunkedMessages.currentChunkIndices[s]
             => lastOp'.op \in Advancing \cup Resetting
        /\ lastOp'.op \in Resetting => chunkedMessages'.currentChunkIndices[s] = 0 ]_vars

\* C25 witness: startFeedbackSession ran on a store whose feedback had been
\* recorded (the clock moved), and both cursors are 0.
C25_Witness ==
  /\ lastOp.op = "startFeedbackSession"
  /\ now = 1
  /\ ~NoChunkExists(chunkedMessages)
  /\ \A s \in Stream : chunkedMessages.currentChunkIndices[s] = 0

\* C26: resetEverything leaves responses and chunks as they were, makes each
\* stream's feedback an array of empty entries as long as its chunk array,
\* sets both cursors to 0 and isChunked and isComplete to true.
C26_ResetEverythingKeepsChunks ==
  [][ lastOp'.op = "resetEverything" =>
        /\ chunkedMessages'.responses = chunkedMessages.responses
        /\ chunkedMessages'.chunks = chunkedMessages.chunks
        /\ \A s \in Stream :
             /\ AllEmptyEntries(chunkedMessages'.feedback[s], Len(chunkedMessages.chunks[s]))
             /\ chunkedMessages'.currentChunkIndices[s] = 0
        /\ chunkedMessages'.isChunked = TRUE
        /\ chunkedMessages'.isComplete = TRUE ]_vars

\* C26 witness: resetEverything ran over two chunks after a feedback had been
\* recorded; the feedback is empty again and both flags are set.
C26_Witness ==
  /\ lastOp.op = "resetEverything"
  /\ now = 1
  /\ Len(chunkedMessages.chunks["stream1"]) = 2
  /\ AllEmptyEntries(chunkedMessages.feedback["stream1"], 2)
  /\ chunkedMessages.isChunked
  /\ chunkedMessages.isComplete

\* C27: every update of the cached conversation list replaces entries by id:
\* an undefined cache stays undefined, a list keeps its length, its order and
\* its ids, an entry changes only in the step of a setQueryData call for its
\* id, and then to that call's description with a fresh updatedAt; no entry
\* is created for an id that the list does not hold.
C27_CacheUpdateReplacesById ==
  [][ /\ conversations'.defined = conversations.defined
      /\ Len(conversations'.list) = Len(conversations.list)
      /\ \A i \in 1..Len(conversations.list) :
           LET old == conversations.list[i]
               new == conversations'.list[i]
           IN /\ new.id = old.id
              /\ new # old =>
                   /\ Len(cacheCalls') = Len(cacheCalls) + 1
                   /\ cacheCalls'[Len(cacheCalls')].id = old.id
              /\ ( /\ Len(cacheCalls') = Len(cacheCalls) + 1
                   /\ cacheCalls'[Len(cacheCalls')].id = old.id )
                   => new = Conversation(old.id,
                                         cacheCalls'[Len(cacheCalls')].description,
                                         "now") ]_vars

\* C27 witness: a session for conversation c1 updated a list of two
\* conversations twice; the entry of c1 carries the terminal text and the
\* entry of c2 is the one the list started with.
C27_Witness ==
  /\ conversations.defined
  /\ Len(conversations.list) = 2
  /\ Len(cacheCalls) = 2
  /\ conversations.list[1] = Conversation("c1", "final text", "now")
  /\ conversations.list[2] = Conversation("c2", "second", "earlier")

\* C28: a data event of a session is handed to onRead only after
\* handleAuthTokenUpdate ran on the opening response: when that response
\* carried a credential in X-Toolkit-Auth-Update, the client has stored it and
\* onAuthTokenUpdate has been called with it before the first onRead call.
C28_CredentialForwardedBeforeData ==
  [][ ( /\ Len(readCalls') > Len(readCalls)
        /\ authHeader \notin {Null, ""} )
        => /\ authToken = authHeader
           /\ sinkCalls # <<>>
           /\ sinkCalls[Len(sinkCalls)] = authHeader ]_vars

\* C28 witness: the opening response carried the credential token2, and the
\* first data event has been read with the credential stored and forwarded.
C28_Witness ==
  /\ authHeader = "token2"
  /\ Len(readCalls) = 1
  /\ authToken = "token2"
  /\ sinkCalls = <<"token2">>

\* an attempt of the session fails in this step
FailedNow == pc \in {"connecting", "streaming"} /\ pc' \in {"failed", "retrying"}

\* C29: a step in which an attempt fails with an unauthorized error makes one
\* invalidateQueries call on the API key query, no other step makes one, and
\* when a retry starts every attempt before it has been followed by its
\* invalidation.
C29_InvalidateBeforeRetry ==
  [][ /\ (FailedNow /\ isUnauthorizedError(rejection'))
           => invalidations' = invalidations + 1
      /\ ~(FailedNow /\ isUnauthorizedError(rejection'))
           => invalidations' = invalidations
      /\ (pc = "retrying" /\ pc' = "connecting")
           => invalidations = attempts /\ invalidations >= 1 ]_vars

\* C29 witness: the first attempt failed with an unauthorized error, the API
\* key query was invalidated once, and the retry has opened its connection.
C29_Witness ==
  /\ attempts = 2
  /\ invalidations = 1
  /\ pc = "streaming"
  /\ rejection.class = "CohereUnauthorizedError"

\* C30: an attempt that fails with an error that is not an unauthorized error
\* ends the session as failed without a retry, with one onError call that
\* carries the error's message; a failed session starts no further attempt
\* and makes no further onError call.
C30_OtherFailureIsFinal ==
  [][ /\ (FailedNow /\ ~isUnauthorizedError(rejection'))
           => /\ pc' = "failed"
              /\ failureCount' = failureCount
              /\ attempts' = attempts
              /\ errorCalls' = Append(errorCalls, rejection'.message)
      /\ pc = "failed"
           => /\ pc' = "failed"
              /\ attempts' = attempts
              /\ errorCalls' = errorCalls ]_vars

\* C30 witness: the only attempt ended on a stream-end event that was not
\* COMPLETE and carried no error text; onError was called once.
C30_Witness ==
  /\ pc = "failed"
  /\ attempts = 1
  /\ failureCount = 0
  /\ rejection = Err("Error", "Stream ended unexpectedly")
  /\ errorCalls = <<"Stream ended unexpectedly">>
  /\ invalidations = 0

\* C31: updateStreamContent(s, text) makes responses[s] the text itself and
\* changes nothing else of the state, and updates of the two streams give the
\* same state in either order.
C31_UpdateReplacesResponse ==
  [][ /\ lastOp'.op = "updateStreamContent" =>
           /\ chunkedMessages'.responses[lastOp'.streamId] = lastOp'.arg
           /\ chunkedMessages' =
                [chunkedMessages EXCEPT !.responses[lastOp'.streamId] = lastOp'.arg]
      /\ \A a \in Texts, b \in Texts :
           updateStreamContent(updateStreamContent(chunkedMessages, "stream1", a),
                               "stream2", b)
             = updateStreamContent(updateStreamContent(chunkedMessages, "stream2", b),
                                   "stream1", a) ]_vars

\* C31 witness: stream1's response of two characters was replaced by a text
\* of one character while chunks, a recorded feedback and a selection stood.
C31_Witness ==
  /\ lastOp = Op("updateStreamContent", "stream1", <<1>>)
  /\ chunkedMessages.responses["stream1"] = <<1>>
  /\ Len(chunkedMessages.chunks["stream1"]) = 2
  /\ chunkedMessages.feedback["stream1"].elems[1].rating = "positive"
  /\ chunkedMessages.activeFeedback.streamId = "stream2"

\* chunks and feedback of st are those of its responses cut at the default size
CorrespondsToResponses(st) ==
  \A s \in Stream :
    /\ st.chunks[s] = createTextChunks(st.responses[s], DefaultChunkSize)
    /\ st.feedback[s] = createEmptyFeedback(Len(st.chunks[s]))

\* C32: every state a store operation hands to the listeners is the state the
\* operation ends in, so that no listener sees a state in between; no state
\* that completeStreams hands them has isComplete true with chunks or
\* feedback that are not those of the current responses.
C32_OperationsAreAtomic ==
  \A k \in 1..Len(notified) :
    /\ notified[k] = chunkedMessages
    /\ (lastOp.op = "completeStreams" /\ notified[k].isComplete)
         => CorrespondsToResponses(notified[k])

PanelOps == {"handlePreferSection", "handleSubmitFeedback"}

\* C33: every recordFeedback call made by a panel handler passes an index i
\* with 0 <= i < len(chunks[streamId]), also when the stream has no chunk;
\* after the handler each feedback array is as long as its chunk array and
\* each cursor is within 0..max(0, len(chunks) - 1).
C33_PanelRecordsInRange ==
  [][ lastOp'.op \in PanelOps =>
        /\ 0 <= lastOp'.arg[1]
        /\ lastOp'.arg[1] < Len(chunkedMessages.chunks[lastOp'.streamId])
        /\ \A s \in Stream :
             /\ Len(chunkedMessages'.feedback[s].elems) = Len(chunkedMessages'.chunks[s])
             /\ chunkedMessages'.feedback[s].props = <<>>
             /\ chunkedMessages'.currentChunkIndices[s] >= 0
             /\ chunkedMessages'.currentChunkIndices[s]
                  <= Max(0, Len(chunkedMessages'.chunks[s]) - 1) ]_vars

\* C34: showNextChunkForStream(s) leaves the cursor of the other stream and
\* the responses, chunks, feedback and flags of both streams as they were.
C34_AdvanceLeavesOtherStream ==
  [][ lastOp'.op = "showNextChunkForStream" =>
        /\ \A s \in Stream \ {lastOp'.streamId} :
             chunkedMessages'.currentChunkIndices[s] = chunkedMessages.currentChunkIndices[s]
        /\ chunkedMessages'.responses = chunkedMessages.responses
        /\ chunkedMessages'.chunks = chunkedMessages.chunks
        /\ chunkedMessages'.feedback = chunkedMessages.feedback
        /\ chunkedMessages'.isComplete = chunkedMessages.isComplete
        /\ chunkedMessages'.isChunked = chunkedMessages.isChunked ]_vars

\* C34 witness: stream2 advanced to its second chunk while stream1's cursor
\* stayed on its first chunk, where a feedback had been recorded.
C34_Witness ==
  /\ lastOp = Op("showNextChunkForStream", "stream2", <<>>)
  /\ chunkedMessages.currentChunkIndices["stream2"] = 1
  /\ chunkedMessages.currentChunkIndices["stream1"] = 0
  /\ Len(chunkedMessages.chunks["stream1"]) = 2
  /\ chunkedMessages.feedback["stream1"].elems[1].rating = "positive"

\* a stream-end event with finish reason COMPLETE has been processed
CompleteProcessed == \E k \in 1..Len(received) : IsComplete(received[k])

\* C35: once a stream-end event with finish reason COMPLETE has been
\* processed, no later step of the session calls onRead or updates the
\* conversation cache, whatever frame the connection still delivers.
C35_NothingAfterCompleteEvent ==
  [][ CompleteProcessed =>
        /\ readCalls' = readCalls
        /\ cacheCalls' = cacheCalls
        /\ conversations' = conversations ]_vars

\* C36: while only the advances run and keep running, the cursor of a stream
\* that has a chunk moves one index at a time, never back, reaches the last
\* index len(chunks[s]) - 1 and stays there.
C36_RevealReachesLastChunk ==
  /\ [][ \A s \in Stream :
           chunkedMessages.chunks[s] # <<>> =>
             \/ chunkedMessages'.currentChunkIndices[s]
                  = chunkedMessages.currentChunkIndices[s]
             \/ chunkedMessages'.currentChunkIndices[s]
                  = chunkedMessages.currentChunkIndices[s] + 1 ]_vars
  /\ \A s \in Stream :
       (chunkedMessages.chunks[s] # <<>>) =>
         <>[](chunkedMessages.currentChunkIndices[s] = Len(chunkedMessages.chunks[s]) - 1)

\* C36 witness: stream1's cursor stands on the last of its four chunks after
\* an advance, and stream2's on the last of its two.
C36_Witness ==
  /\ lastOp.op = "showNextChunk"
  /\ Len(chunkedMessages.chunks["stream1"]) = 4
  /\ chunkedMessages.currentChunkIndices["stream1"] = 3
  /\ Len(chunkedMessages.chunks["stream2"]) = 2
  /\ chunkedMessages.currentChunkIndices["stream2"] = 1

\* C37: in every reachable state the state object carries selectedText and
\* an activeFeedback record, and getSelectedTextFeedback returns a value.
C37_SelectionSlotWellFormed ==
  /\ chunkedMessages.activeFeedback.streamId \in Stream \cup {Null}
  /\ ~getSelectedTextFeedback(chunkedMessages).thrown

\* C38: every chat whose connection is open was given the signal of the
\* controller that the hook's handle holds, so the handle can cancel it, and
\* no connection is open once the hook has unmounted.
C38_OpenChatsAreCancellable ==
  \A k \in 1..Len(chats) :
    chats[k].connection = "open" =>
      /\ chats[k].signal = abortControllerRef
      /\ mounted

\* C39: when the handle is aborted while the mutation waits to retry after an
\* unauthorized failure, the retry does not start: no further attempt opens a
\* connection and no caller callback is called.
C39_NoRetryAfterCancel ==
  [][ (pc = "retrying" /\ aborted) =>
        /\ attempts' = attempts
        /\ pc' = "retrying"
        /\ readCalls' = readCalls
        /\ finishCalls' = finishCalls
        /\ errorCalls' = errorCalls ]_vars

\* C40: every createChunks call returns, whatever the responses and the
\* integer chunk size, and leaves chunk arrays of finitely many chunks, none
\* longer than its response.
C40_CreateChunksTerminates ==
  lastOp.op = "createChunks" =>
    /\ ~Hung
    /\ \A s \in Stream :
         Len(chunkedMessages.chunks[s]) <= Len(chunkedMessages.responses[s])

=============================================================================
